---- MODULE Spec2Model ----
(***************************************************************************)
(* Model of the backup system's encrypted-chunk container codec            *)
(* (src/core/encryptor.py), of restore_backup / handle_restore             *)
(* (src/core/restore.py, src/main.py) and of the fragmentation and         *)
(* reassembly code (src/core/cloud_storage.py, src/core/storage.py,        *)
(* src/utils/rebuild_generator.py).                                        *)
(*                                                                         *)
(* Files are modelled by what their bytes are, not by the bytes            *)
(* themselves: a file is a sequence of pieces, a piece being a byte range  *)
(* [a, b) of the original stream ("P"), or bytes that are not bytes of the *)
(* original ("G"/"T").  All offsets and lengths are the real ones.         *)
(***************************************************************************)
EXTENDS Integers, Sequences, FiniteSets, TLC

VARIABLES
    srcLen,     \* length in bytes of the plaintext file given to encrypt_file
    archPath,   \* path of that file (the archive compress_files produced)
    fs,         \* the files of the encryptor scenario: path -> content
    encCall,    \* arguments of the encrypt_file call that wrote the container
    decCall,    \* arguments and outcome of the last decrypt_file call
    rstCall,    \* arguments and outcome of the last restore command
    dir,        \* fragments directory: the content of fragment i at dir[i + 1]
    manifest,   \* the metadata file of the fragments directory
    outFile,    \* the file reassembly writes
    fragCall,   \* arguments and outcome of the fragment_file call
    rebCall,    \* tool and outcome of the reassembly that ran
    job,        \* the Dask computation of the call in progress, task by task
    cmpCall,    \* arguments and outcome of the compress_files call
    retryCall,  \* the call of a function wrapped by retry, attempt by attempt
    folders,    \* the backup folders that exist: <<base_name, n>>
    backups     \* the backups creating their folder: position and counter

encVars == <<fs, encCall, decCall, rstCall>>

fragVars == <<dir, manifest, outFile, fragCall, rebCall>>

utilVars == <<cmpCall, retryCall, folders, backups>>

vars == <<srcLen, archPath, fs, encCall, decCall, rstCall,
          dir, manifest, outFile, fragCall, rebCall, job,
          cmpCall, retryCall, folders, backups>>

----------------------------------------------------------------------------
(* Generic helpers                                                         *)

Min(x, y) == IF x < y THEN x ELSE y

CeilDiv(x, y) == (x + y - 1) \div y

RECURSIVE SumTo(_, _)
\* f[1] + ... + f[n]
SumTo(f, n) == IF n = 0 THEN 0 ELSE f[n] + SumTo(f, n - 1)

\* piece k of q continues the byte range of piece k - 1
Joins(q, k) == k > 1 /\ q[k].t = "P" /\ q[k - 1].t = "P" /\ q[k - 1].b = q[k].a

\* the bytes of a sequence of pieces: empty pieces dropped, adjacent ranges of
\* the original merged, so that two files are equal iff their bytes are
Normalize(ps) ==
    LET q      == SelectSeq(ps, LAMBDA x : x.a # x.b)
        starts == SelectSeq([k \in 1..Len(q) |-> k], LAMBDA k : ~Joins(q, k))
    IN  [r \in 1..Len(starts) |->
            [t |-> q[starts[r]].t,
             a |-> q[starts[r]].a,
             b |-> q[IF r < Len(starts) THEN starts[r + 1] - 1 ELSE Len(q)].b]]

NoFile == [kind |-> "none"]

DataFile(ps) == [kind |-> "data", pieces |-> Normalize(ps)]

\* the plaintext file of length n
Original(n) == DataFile(<<[t |-> "P", a |-> 0, b |-> n]>>)

----------------------------------------------------------------------------
(* src/core/encryptor.py                                                   *)

BlockSize == 16

IVLen == 16

SaltLen == 16

DefaultChunkSize == 1048576

\* bounds of the encryptor scenario
MaxChunks == 3

Passwords == {"pw1", "pw2"}

Salts == {"s1", "s2"}

ChunkSizes == {1, 15, 16, 17, 32, DefaultChunkSize}

\* the lengths of claim C1/C2: 0, below one chunk, one chunk, multiples, and
\* multiples plus a short tail
LensFor(cs) ==
    {0, 1, cs - 1, cs, cs + 1} \cup
    UNION {{k * cs, k * cs + 1, k * cs - 1} : k \in 2..MaxChunks}

SrcLens == {n \in UNION {LensFor(cs) : cs \in ChunkSizes} : n >= 0}

\* generate_key: PBKDF2 is a function of (password, salt), taken injective
generate_key(password, salt) == <<password, salt>>

\* a padder that adds nothing to a length that already is a multiple
PaddedLen_NoFullBlock(n) == BlockSize * CeilDiv(n, BlockSize)

\* PKCS7 padder: pads to the next multiple of the block size, a full block
\* when the length already is a multiple
PaddedLen(n) == BlockSize * ((n \div BlockSize) + 1)

\* encrypt_chunk: iv + AES-CBC(key, iv, pad(chunk)); the unit remembers what it
\* encrypts and under which key
encrypt_chunk(chunk, key, i) ==
    [key |-> key, iv |-> i, a |-> chunk.a, b |-> chunk.b,
     len |-> IVLen + PaddedLen(chunk.b - chunk.a)]

\* the loop f.read(chunk_size) of encrypt_file: the chunks of a file of n bytes
ReadChunks(n, chunk_size) ==
    [i \in 1..CeilDiv(n, chunk_size) |->
        [a |-> (i - 1) * chunk_size, b |-> Min(i * chunk_size, n)]]

\* chunks_bag.map(encrypt_chunk).compute(), and the sequential list built when
\* Dask raised: the units in the order of the chunks
EncryptChunks(chunks, key) ==
    [i \in 1..Len(chunks) |-> encrypt_chunk(chunks[i], key, i)]

\* the container encrypt_file writes: the salt, then the units back to back
Container(salt, units) == [kind |-> "container", salt |-> salt, units |-> units]

encrypt_file(n, password, salt, chunk_size) ==
    Container(salt, EncryptChunks(ReadChunks(n, chunk_size), generate_key(password, salt)))

UnitLens(units) == [i \in 1..Len(units) |-> units[i].len]

\* bytes after the salt
BodyLen(units) == SumTo(UnitLens(units), Len(units))

\* offset, after the salt, of the first byte of unit j
UnitStart(units, j) == SumTo(UnitLens(units), j - 1)

\* bytes of the container file
ContainerSize(c) == SaltLen + BodyLen(c.units)

\* ReadSize without the room for the padding block
ReadSize_NoPadding(chunk_size) == chunk_size + 16

\* size of one read of decrypt_file: f.read(chunk_size + 16 + 16)
ReadSize(chunk_size) == chunk_size + 16 + 16

\* the loop f.read(ReadSize) of decrypt_file after f.seek(16): the byte ranges,
\* counted from the end of the salt, of the pieces it cuts out of the container
ReadSlices(units, chunk_size) ==
    LET B == BodyLen(units)
        R == ReadSize(chunk_size)
    IN  [i \in 1..CeilDiv(B, R) |-> [lo |-> (i - 1) * R, hi |-> Min(i * R, B)]]

\* the unit a slice is, 0 when the slice is not exactly one unit
UnitOf(units, s) ==
    LET js == {j \in 1..Len(units) :
                  /\ UnitStart(units, j) = s.lo
                  /\ UnitStart(units, j) + units[j].len = s.hi}
    IN  IF js = {} THEN 0 ELSE CHOOSE j \in js : TRUE

\* unit u has all the bytes encrypt_chunk returned (the file was not cut
\* short inside it)
Whole(u) == u.len = IVLen + PaddedLen(u.b - u.a)

\* decrypt_chunk that yields the plaintext of a unit whatever the key
decrypt_chunk_AnyKey(units, s, key, padOk) ==
    LET L == s.hi - s.lo
        j == UnitOf(units, s)
    IN  IF L < IVLen THEN [ok |-> FALSE, err |-> "iv_size"]
        ELSE IF (L - IVLen) % BlockSize # 0 THEN [ok |-> FALSE, err |-> "block_length"]
        ELSE IF L = IVLen THEN [ok |-> FALSE, err |-> "padding"]
        ELSE IF j # 0
             THEN [ok |-> TRUE, piece |-> [t |-> "P", a |-> units[j].a, b |-> units[j].b]]
        ELSE IF padOk
             THEN [ok |-> TRUE, piece |-> [t |-> "G", a |-> s.lo, b |-> s.hi]]
        ELSE [ok |-> FALSE, err |-> "padding"]

\* decrypt_chunk on the bytes of slice s under key.  padOk says whether the
\* last block happens to decrypt to well-formed PKCS7 padding when the bytes
\* are not one unit encrypted under this key (it always does when they are).
\* The leading blocks of a unit under its key decrypt to the leading bytes of
\* its plaintext: when their last block passes for padding the result ("S")
\* is those bytes less the 1 to 16 taken for padding.
decrypt_chunk(units, s, key, padOk) ==
    LET L == s.hi - s.lo
        j == UnitOf(units, s)
    IN  IF L < IVLen THEN [ok |-> FALSE, err |-> "iv_size"]
        ELSE IF (L - IVLen) % BlockSize # 0 THEN [ok |-> FALSE, err |-> "block_length"]
        ELSE IF L = IVLen THEN [ok |-> FALSE, err |-> "padding"]
        ELSE IF j # 0 /\ units[j].key = key /\ Whole(units[j])
             THEN [ok |-> TRUE, piece |-> [t |-> "P", a |-> units[j].a, b |-> units[j].b]]
        ELSE IF j # 0 /\ units[j].key = key /\ padOk
             THEN [ok |-> TRUE, piece |-> [t |-> "S", a |-> units[j].a,
                                           b |-> units[j].a + (L - IVLen)]]
        ELSE IF padOk
             THEN [ok |-> TRUE, piece |-> [t |-> "G", a |-> s.lo, b |-> s.hi]]
        ELSE [ok |-> FALSE, err |-> "padding"]

\* the slices whose padding check is not decided by the model
Garbled(units, slices, key) ==
    {i \in 1..Len(slices) :
        LET L == slices[i].hi - slices[i].lo
            j == UnitOf(units, slices[i])
        IN  /\ L > IVLen
            /\ (L - IVLen) % BlockSize = 0
            /\ ~(j # 0 /\ units[j].key = key /\ Whole(units[j]))}

\* chunks_bag.map(decrypt_chunk).compute(), and the sequential list built when
\* Dask raised: the outcome of every slice, in the order of the slices
DecryptChunks(units, slices, key, padOk) ==
    [i \in 1..Len(slices) |-> decrypt_chunk(units, slices[i], key, i \in padOk)]

\* decrypt_file on a container: the outcome and, when no chunk raised, the
\* content written to output_path.  daskOk says whether Dask itself works; an
\* exception of decrypt_chunk in the parallel run is caught by the bare except
\* and the sequential run raises it again, at the first failing slice.
decrypt_file(c, password, chunk_size, padOk, daskOk) ==
    LET key    == generate_key(password, c.salt)
        slices == ReadSlices(c.units, chunk_size)
        res    == DecryptChunks(c.units, slices, key, padOk)
        bad    == {i \in 1..Len(slices) : ~res[i].ok}
    IN  IF bad # {}
        THEN [ok |-> FALSE,
              err |-> res[CHOOSE i \in bad : \A k \in bad : i <= k].err,
              path |-> "fallback", slices |-> slices]
        ELSE [ok |-> TRUE,
              out |-> DataFile([i \in 1..Len(slices) |-> res[i].piece]),
              path |-> IF daskOk THEN "parallel" ELSE "fallback", slices |-> slices]

----------------------------------------------------------------------------
(* src/core/restore.py and handle_restore of src/main.py, for backup files *)

ArchivePaths == {<<"backup", "zip">>, <<"backup", "tar", "gz">>}

\* compress_files: str(compressed_path) + '.enc'
EncPath(p) == Append(p, "enc")

\* the output_path of a direct decrypt_file call
DecPath == <<"decrypted", "out">>

\* Path.suffix.lower()
Suffix(p) == IF Len(p) > 1 THEN p[Len(p)] ELSE ""

\* Path.with_suffix
with_suffix(p, s) == IF Len(p) > 1 THEN [p EXCEPT ![Len(p)] = s] ELSE Append(p, s)

\* str(path).endswith('.tar.<s>')
IsTar(p) == Len(p) > 2 /\ p[Len(p) - 1] = "tar"

Paths ==
    {DecPath} \cup ArchivePaths \cup {EncPath(p) : p \in ArchivePaths}
              \cup {with_suffix(EncPath(p), "tmp") : p \in ArchivePaths}

\* zipfile / tarfile / gzip / bz2 open the file: they succeed on the bytes of
\* the archive that was backed up, in its own format, and raise otherwise
Extract(path, files) ==
    IF files[path] = Original(srcLen) /\ srcLen > 0 /\ Suffix(path) = Suffix(archPath)
                                      /\ IsTar(path) = IsTar(archPath)
    THEN [ok |-> TRUE, files |-> files]
    ELSE [ok |-> FALSE, err |-> "bad_archive", files |-> files]

RECURSIVE restore_backup(_, _, _, _, _)
\* restore_backup(backup_path, output_dir, password) on a file
restore_backup(backup_path, password, files, padOk, daskOk) ==
    LET extension == Suffix(backup_path)
    IN  IF extension = "enc"
        THEN IF password = ""
             THEN [ok |-> FALSE, err |-> "password_required", files |-> files]
             ELSE LET temp_file == with_suffix(backup_path, "tmp")
                      d == decrypt_file(files[backup_path], password,
                                        DefaultChunkSize, padOk, daskOk)
                  IN  IF ~d.ok
                      THEN [ok |-> FALSE, err |-> d.err, files |-> files]
                      ELSE LET r == restore_backup(temp_file, "",
                                        [files EXCEPT ![temp_file] = d.out], {}, daskOk)
                           IN  IF ~r.ok THEN r
                               ELSE [ok |-> TRUE,
                                     files |-> [r.files EXCEPT ![temp_file] = NoFile]]
        ELSE IF extension \in {"zip", "gz", "bz2"}
        THEN Extract(backup_path, files)
        ELSE [ok |-> FALSE, err |-> "unsupported_format", files |-> files]

\* handle_restore: the exit code of the restore command
handle_restore(input, password, files, padOk, daskOk) ==
    IF files[input] = NoFile
    THEN [exit |-> 1, err |-> "no_input", files |-> files]
    ELSE LET r == restore_backup(input, password, files, padOk, daskOk)
         IN  IF r.ok THEN [exit |-> 0, err |-> "", files |-> r.files]
             ELSE [exit |-> 1, err |-> r.err, files |-> r.files]

----------------------------------------------------------------------------
(* The encryptor scenario: one archive is encrypted, then decrypted or      *)
(* restored                                                                *)

NoCall == [done |-> FALSE]

\* no Dask computation was started
NoJob == [op |-> "none", phase |-> "idle"]

\* compress_files and retry were not called, no backup folder exists and no
\* backup is running
UtilIdle ==
    /\ cmpCall = NoCall
    /\ retryCall = NoCall
    /\ folders = {}
    /\ backups = <<>>

EncInit ==
    /\ srcLen \in SrcLens
    /\ archPath \in ArchivePaths
    /\ fs = [p \in Paths |-> IF p = archPath THEN Original(srcLen) ELSE NoFile]
    /\ encCall = NoCall
    /\ decCall = NoCall
    /\ rstCall = NoCall
    /\ dir = <<>>
    /\ manifest = NoFile
    /\ outFile = NoFile
    /\ fragCall = NoCall
    /\ rebCall = NoCall
    /\ job = NoJob
    /\ UtilIdle

\* encrypt_file(archPath, archPath + '.enc', password, chunk_size)
EncryptFile(password, salt, chunk_size, daskOk) ==
    /\ ~encCall.done
    /\ CeilDiv(srcLen, chunk_size) <= MaxChunks
    /\ fs' = [fs EXCEPT ![EncPath(archPath)] =
                            encrypt_file(srcLen, password, salt, chunk_size)]
    /\ encCall' = [done |-> TRUE, password |-> password, chunk_size |-> chunk_size,
                   path |-> IF daskOk THEN "parallel" ELSE "fallback"]
    /\ UNCHANGED <<srcLen, archPath, utilVars, decCall, rstCall, fragVars, job>>

\* decrypt_file(archPath + '.enc', DecPath, password, chunk_size)
DecryptFile(password, chunk_size, daskOk) ==
    /\ encCall.done
    /\ ~decCall.done /\ ~rstCall.done
    /\ CeilDiv(BodyLen(fs[EncPath(archPath)].units), ReadSize(chunk_size)) <= MaxChunks + 1
    /\ LET c == fs[EncPath(archPath)]
           slices == ReadSlices(c.units, chunk_size)
       IN  /\ \E padOk \in SUBSET Garbled(c.units, slices,
                                          generate_key(password, c.salt)) :
                LET d == decrypt_file(c, password, chunk_size, padOk, daskOk)
                IN  /\ fs' = IF d.ok THEN [fs EXCEPT ![DecPath] = d.out] ELSE fs
                    /\ decCall' = [done |-> TRUE, password |-> password,
                                   chunk_size |-> chunk_size, ok |-> d.ok,
                                   err |-> IF d.ok THEN "" ELSE d.err,
                                   path |-> d.path, slices |-> d.slices]
    /\ UNCHANGED <<srcLen, archPath, utilVars, encCall, rstCall, fragVars, job>>

\* python -m src.main restore -i archPath.enc --password password
HandleRestore(password, daskOk) ==
    /\ encCall.done
    /\ ~decCall.done /\ ~rstCall.done
    /\ LET input == EncPath(archPath)
           c == fs[input]
           slices == ReadSlices(c.units, DefaultChunkSize)
       IN  \E padOk \in SUBSET Garbled(c.units, slices,
                                       generate_key(password, c.salt)) :
                LET h == handle_restore(input, password, fs, padOk, daskOk)
                IN  /\ fs' = h.files
                    /\ rstCall' = [done |-> TRUE, password |-> password,
                                   exit |-> h.exit, err |-> h.err]
    /\ UNCHANGED <<srcLen, archPath, utilVars, encCall, decCall, fragVars, job>>

EncNext ==
    \/ \E pw \in Passwords, s \in Salts, cs \in ChunkSizes, d \in BOOLEAN :
            EncryptFile(pw, s, cs, d)
    \/ \E pw \in Passwords, cs \in ChunkSizes, d \in BOOLEAN : DecryptFile(pw, cs, d)
    \/ \E pw \in Passwords, d \in BOOLEAN : HandleRestore(pw, d)

SpecEnc == EncInit /\ [][EncNext]_vars

----------------------------------------------------------------------------
(* Claims about the container codec and the restore command                *)

BothDefault ==
    /\ encCall.done /\ decCall.done
    /\ encCall.chunk_size = DefaultChunkSize
    /\ decCall.chunk_size = DefaultChunkSize

\* C1: for every plaintext length and every password, decrypt_file with the
\* same password and the default chunk_size, run on what encrypt_file wrote,
\* succeeds and writes a file byte-identical to the plaintext.
C1_RoundTripDefault ==
    (BothDefault /\ decCall.password = encCall.password)
        => /\ decCall.ok
           /\ fs[DecPath] = Original(srcLen)
           /\ fs[DecPath] = fs[archPath]

\* a file of two full chunks and a one-byte tail came back whole
C1_Witness ==
    /\ BothDefault /\ decCall.password = encCall.password
    /\ srcLen = 2 * DefaultChunkSize + 1
    /\ Len(fs[EncPath(archPath)].units) = 3
    /\ decCall.ok /\ fs[DecPath] = Original(srcLen)

\* C2: for every chunk_size >= 1 given to both encrypt_file and decrypt_file
\* and every plaintext length, the pieces decrypt_file reads are exactly the
\* units encrypt_file wrote, and decrypting them yields the plaintext.
C2_SameBoundaries ==
    (encCall.done /\ decCall.done /\ decCall.chunk_size = encCall.chunk_size
                  /\ decCall.password = encCall.password)
        => LET units == fs[EncPath(archPath)].units
           IN  /\ Len(decCall.slices) = Len(units)
               /\ \A i \in 1..Len(units) : UnitOf(units, decCall.slices[i]) = i
               /\ decCall.ok
               /\ fs[DecPath] = Original(srcLen)

\* C4 as claimed: with a different password and a non-empty plaintext
\* decrypt_file fails with a padding error, and so does the restore command.
C4_WrongPasswordAlwaysFails ==
    /\ (BothDefault /\ decCall.password # encCall.password /\ srcLen > 0)
            => (~decCall.ok /\ decCall.err = "padding")
    /\ (encCall.done /\ rstCall.done /\ encCall.chunk_size = DefaultChunkSize
            /\ rstCall.password # encCall.password /\ srcLen > 0)
            => (rstCall.exit # 0 /\ rstCall.err = "padding")

\* C4 amended: with a different password and a non-empty plaintext,
\* decrypt_file either fails with a padding error, raised by the sequential
\* fallback before the output file is opened, or (when the last block of every
\* unit happens to decrypt to well-formed padding) succeeds and writes bytes
\* none of which are the plaintext; the restore command exits non-zero.
C4_WrongPasswordNeverPlaintext ==
    /\ (BothDefault /\ decCall.password # encCall.password /\ srcLen > 0)
            => \/ /\ ~decCall.ok /\ decCall.err = "padding"
                  /\ decCall.path = "fallback"
                  /\ fs[DecPath] = NoFile
               \/ /\ decCall.ok
                  /\ fs[DecPath].kind = "data"
                  /\ fs[DecPath] # Original(srcLen)
                  /\ \A k \in 1..Len(fs[DecPath].pieces) : fs[DecPath].pieces[k].t = "G"
    /\ (encCall.done /\ rstCall.done /\ encCall.chunk_size = DefaultChunkSize
            /\ rstCall.password # encCall.password /\ srcLen > 0)
            => rstCall.exit = 1

\* a three-chunk file decrypted with the other password: padding error
C4_Witness ==
    /\ BothDefault /\ decCall.password # encCall.password
    /\ srcLen = 2 * DefaultChunkSize + 1
    /\ ~decCall.ok /\ decCall.err = "padding"

\* C5: restoring an encrypted backup with the password it was created with
\* succeeds: the container is decrypted to a temporary file, the archive
\* restorer extracts it, the temporary file is removed and the command exits 0.
C5_RestoreEncryptedSucceeds ==
    (encCall.done /\ rstCall.done /\ encCall.chunk_size = DefaultChunkSize
        /\ rstCall.password = encCall.password /\ srcLen > 0)
        => /\ rstCall.exit = 0
           /\ fs[with_suffix(EncPath(archPath), "tmp")] = NoFile

\* C12: the container encrypt_file writes is the 16-byte salt followed by the
\* units in order, each preceded by its own 4-byte length, and decrypt_file
\* cuts the container into those units whatever its chunk_size argument.
C12_LengthPrefixedUnits ==
    encCall.done
        => LET c == fs[EncPath(archPath)]
           IN  /\ ContainerSize(c) =
                    SaltLen + SumTo([i \in 1..Len(c.units) |-> 4 + c.units[i].len],
                                    Len(c.units))
               /\ decCall.done
                    => /\ Len(decCall.slices) = Len(c.units)
                       /\ \A i \in 1..Len(c.units) :
                            UnitOf(c.units, decCall.slices[i]) = i

\* C27: restore_backup on a '.enc' file leaves no temporary decrypted file
\* (the input path with suffix '.tmp') on disk when it returns or raises,
\* whether decryption failed, the inner restore raised or the restore
\* succeeded.
C27_NoTempFileLeft ==
    rstCall.done => fs[with_suffix(EncPath(archPath), "tmp")] = NoFile

----------------------------------------------------------------------------
(* A container cut short: the copy of the container loses its last bytes   *)
(* before decrypt_file reads it                                            *)

\* bytes that can be lost at the end of the container
Cuts == {1, BlockSize, BlockSize + 1}

\* the container file is truncated by cut bytes, inside its last unit
TruncateContainer(cut) ==
    /\ encCall.done /\ ~decCall.done
    /\ LET c == fs[EncPath(archPath)]
           n == Len(c.units)
       IN  /\ n > 0
           /\ Whole(c.units[n])
           /\ cut < c.units[n].len
           /\ fs' = [fs EXCEPT ![EncPath(archPath)] =
                        Container(c.salt, [c.units EXCEPT ![n].len = @ - cut])]
    /\ UNCHANGED <<srcLen, archPath, utilVars, encCall, decCall, rstCall, fragVars, job>>

CutNext ==
    \/ \E pw \in Passwords, s \in Salts, cs \in {BlockSize, DefaultChunkSize},
          d \in BOOLEAN : EncryptFile(pw, s, cs, d)
    \/ \E cut \in Cuts : TruncateContainer(cut)
    \/ \E pw \in Passwords, cs \in {BlockSize, DefaultChunkSize}, d \in BOOLEAN :
            DecryptFile(pw, cs, d)

SpecCut == EncInit /\ [][CutNext]_vars

\* the container is shorter than what encrypt_file wrote
CutShort ==
    /\ encCall.done
    /\ LET c == fs[EncPath(archPath)]
       IN  Len(c.units) > 0 /\ ~Whole(c.units[Len(c.units)])

\* C13: when the container was cut short inside a unit, decrypt_file fails
\* with a truncated-container error instead of giving the shortened unit to
\* decrypt_chunk.
C13_TruncationDetected ==
    (CutShort /\ decCall.done /\ decCall.chunk_size = encCall.chunk_size
              /\ decCall.password = encCall.password)
        => /\ ~decCall.ok
           /\ decCall.err = "truncated_container"
           /\ fs[DecPath] = NoFile

----------------------------------------------------------------------------
(* encrypt_chunk and decrypt_chunk on one chunk of any length              *)

\* bound: chunk lengths 0..MaxChunkLen, and one full default chunk
MaxChunkLen == 48

ChunkLens == 0..MaxChunkLen \cup {DefaultChunkSize}

ChunkInit ==
    /\ srcLen \in ChunkLens
    /\ archPath \in ArchivePaths
    /\ fs = [p \in Paths |-> IF p = archPath THEN Original(srcLen) ELSE NoFile]
    /\ encCall = NoCall
    /\ decCall = NoCall
    /\ rstCall = NoCall
    /\ dir = <<>>
    /\ manifest = NoFile
    /\ outFile = NoFile
    /\ fragCall = NoCall
    /\ rebCall = NoCall
    /\ job = NoJob
    /\ UtilIdle

\* encrypt_chunk(data_chunk, key) on the srcLen bytes
EncryptChunk(password, salt) ==
    /\ job.phase = "idle"
    /\ job' = [op |-> "chunk", phase |-> "encrypted",
               unit |-> encrypt_chunk([a |-> 0, b |-> srcLen],
                                      generate_key(password, salt), 1)]
    /\ UNCHANGED <<srcLen, archPath, utilVars, encVars, fragVars>>

\* decrypt_chunk(encrypted_chunk, key) on the unit encrypt_chunk returned
DecryptChunk(password, salt, padOk) ==
    /\ job.op = "chunk" /\ job.phase = "encrypted"
    /\ LET key == generate_key(password, salt)
           whole == [lo |-> 0, hi |-> job.unit.len]
       IN  /\ padOk => 1 \in Garbled(<<job.unit>>, <<whole>>, key)
           /\ job' = [op |-> "chunk", phase |-> "decrypted", unit |-> job.unit,
                      key |-> key,
                      res |-> decrypt_chunk(<<job.unit>>, whole, key, padOk)]
    /\ UNCHANGED <<srcLen, archPath, utilVars, encVars, fragVars>>

ChunkNext ==
    \/ \E pw \in Passwords, s \in Salts : EncryptChunk(pw, s)
    \/ \E pw \in Passwords, s \in Salts, padOk \in BOOLEAN : DecryptChunk(pw, s, padOk)

SpecChunk == ChunkInit /\ [][ChunkNext]_vars

\* C20: for every chunk length n >= 0, encrypt_chunk returns a unit of
\* exactly 16 + 16 * (floor(n / 16) + 1) bytes (32 for n = 0: the ciphertext
\* part is a positive multiple of 16), and decrypt_chunk of that unit under
\* the same key returns exactly the n bytes.
C20_UnitLengthAndRoundTrip ==
    job.op = "chunk"
        => /\ job.unit.len = 16 + 16 * ((srcLen \div 16) + 1)
           /\ srcLen = 0 => job.unit.len = 32
           /\ job.unit.len - 16 > 0 /\ (job.unit.len - 16) % 16 = 0
           /\ (job.phase = "decrypted" /\ job.key = job.unit.key)
                => /\ job.res.ok
                   /\ job.res.piece = [t |-> "P", a |-> 0, b |-> srcLen]

\* the empty chunk became a 32-byte unit and came back empty
C20_Witness ==
    /\ job.op = "chunk" /\ job.phase = "decrypted" /\ job.key = job.unit.key
    /\ srcLen = 0 /\ job.unit.len = 32
    /\ job.res.ok /\ job.res.piece.a = job.res.piece.b

----------------------------------------------------------------------------
(* Fragmentation: fragment_file of src/core/cloud_storage.py (JSON manifest *)
(* and rebuild script) and of src/core/storage.py (text metadata)          *)

PadWidth == 3

\* bounds of the fragments scenario
MaxFrags == 5

BigFrags == 1001

MaxDamage == 2

MaxDamageIndex == 2

FragSizesMb == {1, 2}

FragSrcPaths == {<<"data", "bin">>, <<"backup", "zip">>}

FileSizes ==
    {0, 1, BigFrags * 1024 * 1024} \cup
    {k * 1024 * 1024 + d : k \in 1..MaxFrags, d \in {-1, 0, 1}}

RECURSIVE Digits(_)
\* the decimal digits of n
Digits(n) == IF n < 10 THEN <<n>> ELSE Append(Digits(n \div 10), n % 10)

RECURSIVE ParseInt(_)
\* the number a string of digits denotes
ParseInt(d) ==
    IF d = <<>> THEN 0 ELSE 10 * ParseInt(SubSeq(d, 1, Len(d) - 1)) + d[Len(d)]

\* f"{stem}.part{index:03d}": the digits that follow "<stem>.part"
FragName(index) ==
    LET d == Digits(index)
    IN  IF Len(d) >= PadWidth THEN d ELSE [k \in 1..(PadWidth - Len(d)) |-> 0] \o d

\* order of two names as strings (the order sorted() puts paths in)
LexLess(x, y) ==
    LET m == Min(Len(x), Len(y))
        d == {k \in 1..m : x[k] # y[k]}
    IN  IF d = {} THEN Len(x) < Len(y)
        ELSE LET k == CHOOSE k \in d : \A l \in d : k <= l IN x[k] < y[k]

RECURSIVE FlattenRange(_, _, _)
\* ss[lo] \o ... \o ss[hi]
FlattenRange(ss, lo, hi) ==
    IF lo > hi THEN <<>>
    ELSE IF lo = hi THEN ss[lo]
    ELSE LET mid == (lo + hi) \div 2
         IN  FlattenRange(ss, lo, mid) \o FlattenRange(ss, mid + 1, hi)

\* the file made of the bytes of the files cs, in their order
ConcatFiles(cs) ==
    DataFile(FlattenRange([k \in 1..Len(cs) |-> cs[k].pieces], 1, Len(cs)))

\* number of bytes of a file
Size(c) == SumTo([k \in 1..Len(c.pieces) |-> c.pieces[k].b - c.pieces[k].a],
                 Len(c.pieces))

\* a checksum that only depends on the length of the data
Checksum_SizeOnly(c) == Size(c)

\* hashlib.md5(data).hexdigest(): a function of the bytes, taken injective
Checksum(c) == c.pieces

\* the fragment list with the count rounded down: the tail is left out
FragRanges_Floor(file_size, fragment_size) ==
    [i \in 1..(file_size \div fragment_size) |->
        [index |-> i - 1,
         start |-> (i - 1) * fragment_size,
         end   |-> Min((i - 1) * fragment_size + fragment_size, file_size)]]

\* the fragment list with one fragment more than file_size // fragment_size:
\* an empty last fragment when the size divides evenly
FragRanges_ExtraFragment(file_size, fragment_size) ==
    [i \in 1..((file_size \div fragment_size) + 1) |->
        [index |-> i - 1,
         start |-> (i - 1) * fragment_size,
         end   |-> Min((i - 1) * fragment_size + fragment_size, file_size)]]

\* the (index, start, end) list of fragment_file
FragRanges(file_size, fragment_size) ==
    [i \in 1..CeilDiv(file_size, fragment_size) |->
        [index |-> i - 1,
         start |-> (i - 1) * fragment_size,
         end   |-> Min((i - 1) * fragment_size + fragment_size, file_size)]]

\* f_in.seek(start); f_in.read(n) on the source file
ReadAt(file_size, start, n) ==
    DataFile(<<[t |-> "P", a |-> Min(start, file_size),
                b |-> Min(start + n, file_size)]>>)

\* write_fragment that numbers the fragment names from 1
write_fragment_OneBased(file_size, frag) ==
    LET data == ReadAt(file_size, frag.start, frag.end - frag.start)
    IN  [name |-> FragName(frag.index + 1), data |-> data, size |-> Size(data),
         checksum |-> Checksum(data), index |-> frag.index]

\* write_fragment: the fragment file it writes and the result it returns
write_fragment(file_size, frag) ==
    LET data == ReadAt(file_size, frag.start, frag.end - frag.start)
    IN  [name |-> FragName(frag.index), data |-> data, size |-> Size(data),
         checksum |-> Checksum(data), index |-> frag.index]

\* fragments_bag.map(write_fragment).compute(), and the sequential list built
\* when Dask raised
FragmentResults(file_size, fragment_size) ==
    LET fragments == FragRanges(file_size, fragment_size)
    IN  [i \in 1..Len(fragments) |-> write_fragment(file_size, fragments[i])]

\* the metadata dict json.dump writes to <stem>.metadata.json
CloudMetadata(source_file, file_size, fragment_size, results) ==
    [kind |-> "json", original_file |-> source_file,
     file_size |-> file_size, fragment_size |-> fragment_size,
     num_fragments |-> CeilDiv(file_size, fragment_size),
     fragments |-> [i \in 1..Len(results) |->
         [name |-> results[i].name, size |-> results[i].size,
          checksum |-> results[i].checksum,
          index |-> results[i].index]]]

\* the lines written to <stem>.metadata
StorageMetadata(source_file, file_size, fragment_size, results) ==
    [kind |-> "text", original_file |-> source_file,
     file_size |-> file_size, fragment_size |-> fragment_size,
     num_fragments |-> CeilDiv(file_size, fragment_size),
     fragments |-> [i \in 1..Len(results) |-> [name |-> results[i].name]]]

\* fragment_file of cloud_storage.py with free bytes left on the destination
fragment_file_cloud(source_file, file_size, fragment_size_mb, free) ==
    LET fragment_size == fragment_size_mb * 1024 * 1024
        results == FragmentResults(file_size, fragment_size)
    IN  IF file_size > free
        THEN [ok |-> FALSE, err |-> "insufficient_space", dir |-> <<>>,
              manifest |-> NoFile]
        ELSE [ok |-> TRUE, err |-> "",
              dir |-> [i \in 1..Len(results) |-> results[i].data],
              manifest |-> CloudMetadata(source_file, file_size, fragment_size, results)]

\* fragment_file of storage.py
fragment_file_storage(source_file, file_size, fragment_size_mb) ==
    LET fragment_size == fragment_size_mb * 1024 * 1024
        results == FragmentResults(file_size, fragment_size)
    IN  [ok |-> TRUE, err |-> "",
         dir |-> [i \in 1..Len(results) |-> results[i].data],
         manifest |-> StorageMetadata(source_file, file_size, fragment_size, results)]

----------------------------------------------------------------------------
(* Reassembly: rebuild_file of the generated rebuild.py                     *)
(* (src/utils/rebuild_generator.py), the basic rebuild.py                  *)
(* (src/backup_fragments_1/fragments/rebuild.py) and restore_fragments     *)
(* (src/core/restore.py)                                                   *)

\* os.path.exists(fragment_name) in the fragments directory d
Exists(d, name) ==
    LET i == ParseInt(name)
    IN  i < Len(d) /\ FragName(i) = name /\ d[i + 1] # NoFile

\* open(fragment_name, 'rb').read()
ReadFrag(d, name) == d[ParseInt(name) + 1]

\* fragment_name in fragments (the dict of the manifest)
InManifest(fragments, name) ==
    LET i == ParseInt(name)
    IN  i < Len(fragments) /\ fragments[i + 1].name = name

\* MissingNames that stops at the first absent fragment
MissingNames_FirstOnly(fragments, d) ==
    LET miss == SelectSeq(fragments, LAMBDA e : ~Exists(d, e.name))
    IN  IF miss = <<>> THEN <<>> ELSE <<miss[1].name>>

\* the list "missing": every manifest name that does not exist, in manifest order
MissingNames(fragments, d) ==
    LET miss == SelectSeq(fragments, LAMBDA e : ~Exists(d, e.name))
    IN  [k \in 1..Len(miss) |-> miss[k].name]

\* the fragments whose md5 differs from the manifest's, in manifest order
Mismatching(fragments, d) ==
    SelectSeq(fragments, LAMBDA e : Checksum(ReadFrag(d, e.name)) # e.checksum)

\* the index i for which f"{stem}.part{i:03d}" is the name of the original
\* file itself, -1 when there is none (of the names used here only
\* "<stem>.part000" is one)
OwnFragment(source_file) ==
    IF Suffix(source_file) = "part000" THEN 0 ELSE -1

\* the fragments directory once open(original_name, 'wb') has run in it: a
\* fragment that has the name of the original file is truncated
Opened(m, d) ==
    LET i == OwnFragment(m.original_file)
    IN  IF i >= 0 /\ i < Len(d) THEN [d EXCEPT ![i + 1] = DataFile(<<>>)] ELSE d

\* the checksum loop of rebuild_file: it prints the first mismatching fragment
\* with the expected and the actual checksum and returns False
ChecksumReport(fragments, d) ==
    LET bad == Mismatching(fragments, d)
    IN  IF bad = <<>> THEN <<>>
        ELSE << [name |-> bad[1].name, expected |-> bad[1].checksum,
                 actual |-> Checksum(ReadFrag(d, bad[1].name))] >>

\* the outcome of a reassembly; out is the output file after it
Report(ok, err, out) ==
    [ok |-> ok, err |-> err, out |-> out, missing |-> <<>>, mismatches |-> <<>>,
     order |-> <<>>, reads |-> 0, warning |-> FALSE, extracted |-> FALSE]

\* rebuild_file of the generated script, run in the fragments directory with
\* manifest m, fragments d and output file out
rebuild_file(m, d, out) ==
    IF m = NoFile THEN Report(FALSE, "no_metadata", out)
    ELSE
    LET fragments == m.fragments
        missing   == MissingNames(fragments, d)
        bad       == Mismatching(fragments, d)
        n         == Len(fragments)
        stop      == {i \in 0..(n - 1) : ~InManifest(fragments, FragName(i))}
        upto      == IF stop = {} THEN n ELSE CHOOSE i \in stop : \A k \in stop : i <= k
        data      == ConcatFiles([k \in 1..upto |->
                                        ReadFrag(Opened(m, d), FragName(k - 1))])
        order     == [k \in 1..upto |-> k - 1]
    IN  IF missing # <<>>
        THEN [Report(FALSE, "missing", out) EXCEPT !.missing = missing]
        ELSE IF bad # <<>>
        THEN [Report(FALSE, "checksum", out) EXCEPT
                 !.mismatches = ChecksumReport(fragments, d),
                 !.reads = bad[1].index + 1]
        ELSE IF stop # {}
        THEN [Report(FALSE, "not_in_manifest", data) EXCEPT
                 !.order = order, !.reads = n + upto]
        ELSE [Report(Size(data) = m.file_size,
                     IF Size(data) = m.file_size THEN "" ELSE "size", data) EXCEPT
                 !.order = order, !.reads = n + n]

\* rebuild_file of the basic script: presence check, then concatenation
rebuild_basic(m, d, out) ==
    IF m = NoFile THEN Report(FALSE, "no_metadata", out)
    ELSE
    LET fragments == m.fragments
        missing   == MissingNames(fragments, d)
        n         == Len(fragments)
    IN  IF missing # <<>>
        THEN [Report(FALSE, "missing", out) EXCEPT !.missing = missing]
        ELSE [Report(TRUE, "",
                     ConcatFiles([k \in 1..n |->
                                    ReadFrag(Opened(m, d), FragName(k - 1))])) EXCEPT
                 !.order = [k \in 1..n |-> k - 1], !.reads = n]

\* sorted(Path(fragments_dir).glob("*.part*")): the indices of the fragment
\* files present, in the order of their names
SortedFragments(d) ==
    LET present == SelectSeq([k \in 1..Len(d) |-> k - 1], LAMBDA i : d[i + 1] # NoFile)
        names   == SortSeq([k \in 1..Len(present) |-> FragName(present[k])], LexLess)
    IN  [k \in 1..Len(names) |-> ParseInt(names[k])]

\* restore_fragments that raises when the size is not the recorded one
restore_fragments_Strict(m, d, out) ==
    IF m = NoFile \/ m.kind # "text" THEN Report(FALSE, "no_metadata", out)
    ELSE IF m.num_fragments = 0 THEN Report(FALSE, "metadata_parse", out)
    ELSE
    LET fragment_paths == SortedFragments(d)
        data    == ConcatFiles([k \in 1..Len(fragment_paths) |-> d[fragment_paths[k] + 1]])
        output_file == m.original_file
        r       == restore_backup(output_file, "", (output_file :> data), {}, TRUE)
        done    == [Report(TRUE, "", data) EXCEPT
                       !.order = fragment_paths, !.reads = Len(fragment_paths)]
    IN  IF fragment_paths = <<>> THEN Report(FALSE, "no_fragments", out)
        ELSE IF Size(data) # m.file_size THEN Report(FALSE, "size", NoFile)
        ELSE IF Suffix(output_file) \in {"zip", "gz", "bz2", "enc"}
        THEN IF r.ok THEN [done EXCEPT !.out = NoFile, !.extracted = TRUE]
             ELSE [done EXCEPT !.ok = FALSE, !.err = r.err]
        ELSE done

\* restore_fragments(fragments_dir, output_dir)
restore_fragments(m, d, out) ==
    IF m = NoFile \/ m.kind # "text" THEN Report(FALSE, "no_metadata", out)
    ELSE IF m.num_fragments = 0 THEN Report(FALSE, "metadata_parse", out)
    ELSE
    LET fragment_paths == SortedFragments(d)
        data    == ConcatFiles([k \in 1..Len(fragment_paths) |-> d[fragment_paths[k] + 1]])
        warning == Size(data) # m.file_size
        output_file == m.original_file
        r       == restore_backup(output_file, "", (output_file :> data), {}, TRUE)
        done    == [Report(TRUE, "", data) EXCEPT
                       !.order = fragment_paths, !.reads = Len(fragment_paths),
                       !.warning = warning]
    IN  IF fragment_paths = <<>> THEN Report(FALSE, "no_fragments", out)
        ELSE IF Suffix(output_file) \in {"zip", "gz", "bz2", "enc"}
        THEN IF r.ok THEN [done EXCEPT !.out = NoFile, !.extracted = TRUE]
             ELSE [done EXCEPT !.ok = FALSE, !.err = r.err]
        ELSE done

----------------------------------------------------------------------------
(* The fragments scenario: a file is fragmented, fragments are lost or      *)
(* changed on the medium, and the set is reassembled                       *)

FragInit ==
    /\ srcLen \in FileSizes
    /\ archPath \in FragSrcPaths
    /\ fs = [p \in Paths |-> NoFile]
    /\ encCall = NoCall
    /\ decCall = NoCall
    /\ rstCall = NoCall
    /\ dir = <<>>
    /\ manifest = NoFile
    /\ outFile = NoFile
    /\ fragCall = NoCall
    /\ rebCall = NoCall
    /\ job = NoJob
    /\ UtilIdle

\* cloud_storage.fragment_file(archPath, fragment_size_mb)
FragmentFileCloud(fragment_size_mb, free) ==
    /\ ~fragCall.done
    /\ LET r == fragment_file_cloud(archPath, srcLen, fragment_size_mb, free)
       IN  /\ dir' = r.dir
           /\ manifest' = r.manifest
           /\ fragCall' = [done |-> TRUE, module |-> "cloud_storage", ok |-> r.ok,
                           err |-> r.err,
                           fragment_size |-> fragment_size_mb * 1024 * 1024]
    /\ UNCHANGED <<srcLen, archPath, utilVars, encVars, outFile, rebCall, job>>

\* storage.fragment_file(archPath, fragment_size_mb)
FragmentFileStorage(fragment_size_mb) ==
    /\ ~fragCall.done
    /\ LET r == fragment_file_storage(archPath, srcLen, fragment_size_mb)
       IN  /\ dir' = r.dir
           /\ manifest' = r.manifest
           /\ fragCall' = [done |-> TRUE, module |-> "storage", ok |-> r.ok,
                           err |-> r.err,
                           fragment_size |-> fragment_size_mb * 1024 * 1024]
    /\ UNCHANGED <<srcLen, archPath, utilVars, encVars, outFile, rebCall, job>>

\* the content fragment_file wrote to fragment i
Written(i) ==
    write_fragment(srcLen, FragRanges(srcLen, fragCall.fragment_size)[i + 1]).data

\* the fragments that can be lost or changed, and those that were
Exposed == 0..Min(Len(dir) - 1, MaxDamageIndex)

Lost == {i \in Exposed : dir[i + 1] = NoFile}

Changed == {i \in Exposed : dir[i + 1] # NoFile /\ dir[i + 1] # Written(i)}

\* another content for a fragment file: a byte flipped, the last byte cut off,
\* a byte appended
Tamper(c, how) ==
    LET p == c.pieces[1]
    IN  CASE how = "flip"     -> DataFile(<<[t |-> "T", a |-> p.a, b |-> p.b]>>)
          [] how = "truncate" -> DataFile(<<[t |-> "P", a |-> p.a, b |-> p.b - 1]>>)
          [] how = "append"   -> DataFile(<<p, [t |-> "T", a |-> p.b, b |-> p.b + 1]>>)

\* fragment i is deleted from the directory
DeleteFragment(i) ==
    /\ fragCall.done /\ fragCall.ok /\ ~rebCall.done
    /\ i \in Exposed \ (Lost \cup Changed)
    /\ Cardinality(Lost \cup Changed) < MaxDamage
    /\ dir' = [dir EXCEPT ![i + 1] = NoFile]
    /\ UNCHANGED <<srcLen, archPath, utilVars, encVars, manifest, outFile, fragCall, rebCall, job>>

\* the content of fragment i is changed, the manifest is not
TamperFragment(i, how) ==
    /\ fragCall.done /\ fragCall.ok /\ ~rebCall.done
    /\ i \in Exposed \ (Lost \cup Changed)
    /\ Cardinality(Lost \cup Changed) < MaxDamage
    /\ dir' = [dir EXCEPT ![i + 1] = Tamper(dir[i + 1], how)]
    /\ UNCHANGED <<srcLen, archPath, utilVars, encVars, manifest, outFile, fragCall, rebCall, job>>

\* the fragments directory after the call: the scripts write the output file
\* <original_name> in it once the checks have passed, restore_fragments
\* writes in output_dir, another directory
DirAfter(tool, m, d, r) ==
    LET i == OwnFragment(archPath)
    IN  IF /\ tool \in {"rebuild_file", "rebuild_basic"}
           /\ r.err \in {"", "size", "not_in_manifest"}
           /\ i >= 0 /\ i < Len(d)
        THEN [d EXCEPT ![i + 1] = r.out]
        ELSE d

Reassembled(tool, r) ==
    /\ outFile' = r.out
    /\ dir' = DirAfter(tool, manifest, dir, r)
    /\ rebCall' = [done |-> TRUE, tool |-> tool, ok |-> r.ok, err |-> r.err,
                   missing |-> r.missing, mismatches |-> r.mismatches,
                   order |-> r.order, reads |-> r.reads, warning |-> r.warning,
                   extracted |-> r.extracted]
    /\ UNCHANGED <<srcLen, archPath, utilVars, encVars, manifest, fragCall, job>>

\* python rebuild.py (the generated script) in the fragments directory
RebuildFile ==
    /\ fragCall.done /\ fragCall.ok /\ ~rebCall.done
    /\ fragCall.module = "cloud_storage"
    /\ Reassembled("rebuild_file", rebuild_file(manifest, dir, outFile))

\* python rebuild.py (the basic script) in the fragments directory
RebuildBasic ==
    /\ fragCall.done /\ fragCall.ok /\ ~rebCall.done
    /\ fragCall.module = "cloud_storage"
    /\ Reassembled("rebuild_basic", rebuild_basic(manifest, dir, outFile))

\* restore_backup(fragments_dir, output_dir): a directory goes to restore_fragments
RestoreFragments ==
    /\ fragCall.done /\ fragCall.ok /\ ~rebCall.done
    /\ Reassembled("restore_fragments", restore_fragments(manifest, dir, outFile))

FragNext ==
    \/ \E mb \in FragSizesMb, free \in {0, srcLen} : FragmentFileCloud(mb, free)
    \/ \E mb \in FragSizesMb : FragmentFileStorage(mb)
    \/ \E i \in 0..MaxDamageIndex : DeleteFragment(i)
    \/ \E i \in 0..MaxDamageIndex, how \in {"flip", "truncate", "append"} :
            TamperFragment(i, how)
    \/ RebuildFile
    \/ RebuildBasic
    \/ RestoreFragments

SpecFrag == FragInit /\ [][FragNext]_vars

\* the same scenario for an original file whose name is "<stem>.part000"
PartNameInit ==
    /\ srcLen \in FileSizes
    /\ archPath = <<"data", "part000">>
    /\ fs = [p \in Paths |-> NoFile]
    /\ encCall = NoCall
    /\ decCall = NoCall
    /\ rstCall = NoCall
    /\ dir = <<>>
    /\ manifest = NoFile
    /\ outFile = NoFile
    /\ fragCall = NoCall
    /\ rebCall = NoCall
    /\ job = NoJob
    /\ UtilIdle

SpecPartName == PartNameInit /\ [][FragNext]_vars

----------------------------------------------------------------------------
(* Claims about fragmentation and reassembly                               *)

RanTool(tool) == rebCall.done /\ rebCall.tool = tool

C6_TamperDetected ==
    (RanTool("rebuild_file") /\ Lost = {} /\ Changed # {})
        => /\ ~rebCall.ok
           /\ rebCall.err = "checksum"
           /\ \E i \in Changed :
                rebCall.mismatches =
                    << [name |-> FragName(i), expected |-> Checksum(Written(i)),
                        actual |-> Checksum(dir[i + 1])] >>
           /\ rebCall.mismatches[1].expected # rebCall.mismatches[1].actual
           /\ outFile = NoFile

\* the middle fragment of three was changed and is the one reported
C6_Witness ==
    /\ RanTool("rebuild_file") /\ Lost = {} /\ Changed = {1}
    /\ Len(dir) = 3
    /\ rebCall.err = "checksum"
    /\ rebCall.mismatches[1].name = FragName(1)
    /\ outFile = NoFile

\* C7: when fragments named in the manifest are absent, rebuild_file (the
\* generated and the basic script) fails and reports every missing name,
\* before the output file is created or any fragment is read.
C7_AllMissingReported ==
    ((RanTool("rebuild_file") \/ RanTool("rebuild_basic")) /\ Lost # {})
        => /\ ~rebCall.ok
           /\ rebCall.err = "missing"
           /\ {rebCall.missing[k] : k \in 1..Len(rebCall.missing)}
                  = {FragName(i) : i \in Lost}
           /\ Len(rebCall.missing) = Cardinality(Lost)
           /\ outFile = NoFile
           /\ rebCall.reads = 0

\* two fragments are absent and both are reported
C7_Witness ==
    /\ RanTool("rebuild_file") /\ Lost = {0, 2}
    /\ rebCall.err = "missing"
    /\ rebCall.missing = <<FragName(0), FragName(2)>>
    /\ outFile = NoFile

\* C8: restore_fragments fails with a missing-fragment error naming the absent
\* fragment when a fragment listed in the metadata is not in the directory
\* (and others are), instead of concatenating the fragments that remain.
C8_RestoreDetectsMissing ==
    (RanTool("restore_fragments") /\ manifest.kind = "text"
        /\ Lost # {} /\ Cardinality(Lost) < Len(dir))
        => /\ ~rebCall.ok
           /\ rebCall.err = "missing"
           /\ {rebCall.missing[k] : k \in 1..Len(rebCall.missing)}
                  = {FragName(i) : i \in Lost}

\* C9: when several fragments have a checksum different from the manifest's,
\* rebuild_file reports every one of them, before concatenation starts.
C9_AllMismatchesReported ==
    (RanTool("rebuild_file") /\ Lost = {} /\ Cardinality(Changed) >= 2)
        => /\ ~rebCall.ok
           /\ {rebCall.mismatches[k].name : k \in 1..Len(rebCall.mismatches)}
                  = {FragName(i) : i \in Changed}
           /\ outFile = NoFile

\* C10: reassembly concatenates the fragments in ascending index, for every
\* fragment count, counts above 1000 included, in restore_fragments and in the
\* generated rebuild_file.
C10_AscendingIndexOrder ==
    ((RanTool("restore_fragments") \/ RanTool("rebuild_file"))
        /\ rebCall.order # <<>>)
        => \A k \in 1..(Len(rebCall.order) - 1) : rebCall.order[k] < rebCall.order[k + 1]

\* C14: for every file size and fragment size, fragment_file produces exactly
\* ceil(file_size / fragment_size) fragments, fragment i holding the bytes
\* [i * fragment_size, min((i + 1) * fragment_size, file_size)): contiguous,
\* disjoint, covering the file, all of fragment_size bytes but the last, which
\* holds the remainder (a full fragment when the size divides evenly).
C14_FragmentRanges ==
    (fragCall.done /\ fragCall.ok /\ ~rebCall.done /\ Lost = {} /\ Changed = {})
        => LET size == fragCall.fragment_size
               n    == CeilDiv(srcLen, size)
           IN  /\ Len(dir) = n
               /\ manifest.num_fragments = n
               /\ \A i \in 0..(n - 1) :
                    dir[i + 1] = DataFile(<<[t |-> "P", a |-> i * size,
                                             b |-> Min((i + 1) * size, srcLen)]>>)
               /\ \A i \in 0..(n - 2) : Size(dir[i + 1]) = size
               /\ n > 0 => Size(dir[n]) = (IF srcLen % size = 0 THEN size
                                           ELSE srcLen % size)
               /\ ConcatFiles(dir) = Original(srcLen)

\* a file of exactly two fragments: the last one is full
C14_Witness ==
    /\ fragCall.done /\ fragCall.ok /\ ~rebCall.done /\ Lost = {} /\ Changed = {}
    /\ srcLen = 2 * fragCall.fragment_size
    /\ Len(dir) = 2
    /\ Size(dir[2]) = fragCall.fragment_size

\* the file restore_fragments assembles from directory dir
Assembled ==
    LET fragment_paths == SortedFragments(dir)
    IN  ConcatFiles([k \in 1..Len(fragment_paths) |-> dir[fragment_paths[k] + 1]])

\* restore_fragments got as far as the size check with a size that differs
SizeDiffers ==
    /\ RanTool("restore_fragments")
    /\ manifest.kind = "text" /\ manifest.num_fragments > 0
    /\ SortedFragments(dir) # <<>>
    /\ Size(Assembled) # manifest.file_size

\* C17: when the length of the reassembled file differs from the size in the
\* metadata, restore_fragments warns and does not abort: the assembled file
\* stays in place and the call goes on to return it or, when it is named as
\* an archive, to extract it (the file is removed after an extraction that
\* succeeds; an error of the archive reader is the only failure).
C17_SizeMismatchIsWarning ==
    SizeDiffers
        => /\ rebCall.warning
           /\ rebCall.err # "size"
           /\ Suffix(archPath) \notin {"zip", "gz", "bz2", "enc"}
                => (rebCall.ok /\ ~rebCall.extracted /\ outFile = Assembled)
           /\ Suffix(archPath) \in {"zip", "gz", "bz2", "enc"}
                => \/ rebCall.ok /\ rebCall.extracted /\ outFile = NoFile
                   \/ ~rebCall.ok /\ rebCall.err = "bad_archive"
                                  /\ outFile = Assembled

\* a fragment of a plain file lost its last byte: warning, file returned
C17_Witness ==
    /\ SizeDiffers
    /\ Suffix(archPath) = "bin"
    /\ Lost = {} /\ Changed # {}
    /\ Size(outFile) = srcLen - 1
    /\ rebCall.ok /\ rebCall.warning

----------------------------------------------------------------------------
(* The Dask computations task by task:                                     *)
(* db.from_sequence(xs).map(f).compute() in encrypt_file, decrypt_file and *)
(* fragment_file, and the sequential list of their except branch           *)

\* bound of the task-level runs: chunks or fragments of one call
MaxTasks == 3

ParLens ==
    {0, 1} \cup {k * DefaultChunkSize + d : k \in 1..MaxTasks, d \in {-1, 0}}
           \cup {k * DefaultChunkSize + 1 : k \in 1..(MaxTasks - 1)}

\* a task that has not run
Waiting == [ok |-> FALSE, err |-> "not_run"]

\* the results in the order the tasks finished in
Gather_CompletionOrder(finished, results) ==
    [k \in 1..Len(finished) |-> results[finished[k]]]

\* compute(): the results as a list in the order of the sequence given to
\* from_sequence, whatever order the tasks finished in
Gather(finished, results) == [i \in 1..Len(results) |-> results[i]]

\* db.from_sequence(tasks).map(f): every task is still to run
NewJob(op, tasks) ==
    [op |-> op, phase |-> "parallel", tasks |-> tasks,
     pending |-> 1..Len(tasks), finished |-> <<>>,
     results |-> [i \in 1..Len(tasks) |-> Waiting],
     raised |-> FALSE, path |-> "", err |-> "", written |-> <<>>]

\* length of a file that may not exist
FileLen(c) == IF c = NoFile THEN 0 ELSE Size(c)

\* bytes the files of directory d take
Used(d) == SumTo([k \in 1..Len(d) |-> FileLen(d[k])], Len(d))

\* the first room bytes of data, room < Size(data): what a write leaves when
\* the device fills up
Prefix(data, room) ==
    DataFile(<<[t |-> "P", a |-> data.pieces[1].a, b |-> data.pieces[1].a + room]>>)

\* a write that adds to the file that is there
WriteFile_Append(old, data) ==
    IF old = NoFile THEN data ELSE ConcatFiles(<<old, data>>)

\* open(output_path, 'wb') ... f_out.write(data): the file is replaced
WriteFile(old, data) == data

\* write_fragment for fragment i in directory d with free bytes on the device:
\* io is an I/O error on open(); a write that does not fit raises OSError and
\* leaves the bytes that did fit
StoreFragment(d, i, w, free, io) ==
    LET room == free - Used([d EXCEPT ![i + 1] = NoFile])
    IN  IF io THEN [ok |-> FALSE, dir |-> d]
        ELSE IF Size(w.data) > room
        THEN [ok |-> FALSE, dir |-> [d EXCEPT ![i + 1] = Prefix(w.data, room)]]
        ELSE [ok |-> TRUE, dir |-> [d EXCEPT ![i + 1] = WriteFile(d[i + 1], w.data)]]

RECURSIVE SequentialWrites(_, _, _, _, _)
\* [write_fragment(frag) for frag in fragments] from fragment k - 1 on: the
\* directory it leaves and the position that raised (0: none); the write of
\* position failAt meets an I/O error
SequentialWrites(d, k, ws, free, failAt) ==
    IF k > Len(ws) THEN [dir |-> d, raised |-> 0]
    ELSE LET s == StoreFragment(d, k - 1, ws[k], free, k = failAt)
         IN  IF s.ok THEN SequentialWrites(s.dir, k + 1, ws, free, failAt)
             ELSE [dir |-> s.dir, raised |-> k]

\* the metadata fragment_file writes, for the module it belongs to
Metadata(module, source_file, file_size, fragment_size, results) ==
    IF module = "cloud_storage"
    THEN CloudMetadata(source_file, file_size, fragment_size, results)
    ELSE StorageMetadata(source_file, file_size, fragment_size, results)

ParInit ==
    /\ srcLen \in ParLens
    /\ archPath \in ArchivePaths
    /\ fs = [p \in Paths |-> IF p = archPath THEN Original(srcLen) ELSE NoFile]
    /\ encCall = NoCall
    /\ decCall = NoCall
    /\ rstCall = NoCall
    /\ dir = <<>>
    /\ manifest = NoFile
    /\ outFile = NoFile
    /\ fragCall = NoCall
    /\ rebCall = NoCall
    /\ job = NoJob
    /\ UtilIdle

\* encrypt_file up to compute(): the chunks are read and given to Dask
StartEncrypt(password, salt) ==
    /\ job.phase = "idle"
    /\ job' = NewJob("encrypt", ReadChunks(srcLen, DefaultChunkSize))
                @@ [key |-> generate_key(password, salt), salt |-> salt]
    /\ UNCHANGED <<srcLen, archPath, utilVars, encVars, fragVars>>

\* decrypt_file up to compute(), on the container encrypt_file wrote
StartDecrypt(password) ==
    /\ job.op = "encrypt" /\ job.phase = "done"
    /\ LET c == fs[EncPath(archPath)]
           slices == ReadSlices(c.units, DefaultChunkSize)
           key == generate_key(password, c.salt)
       IN  \E padOk \in SUBSET Garbled(c.units, slices, key) :
               job' = NewJob("decrypt", slices)
                        @@ [key |-> key, units |-> c.units, padOk |-> padOk]
    /\ UNCHANGED <<srcLen, archPath, utilVars, encVars, fragVars>>

\* what task i of an encrypt or decrypt job returns or raises
RunChunk(j, i) ==
    IF j.op = "encrypt"
    THEN [ok |-> TRUE, out |-> encrypt_chunk(j.tasks[i], j.key, i)]
    ELSE LET r == decrypt_chunk(j.units, j.tasks[i], j.key, i \in j.padOk)
         IN  IF r.ok THEN [ok |-> TRUE, out |-> r.piece] ELSE r

\* the job after task i ended with result r
Finished(j, i, r) ==
    [j EXCEPT !.pending = @ \ {i}, !.finished = Append(@, i),
              !.results[i] = r, !.raised = @ \/ ~r.ok]

\* a worker runs encrypt_chunk / decrypt_chunk on chunk i
ChunkTask(i) ==
    /\ job.phase = "parallel" /\ job.op \in {"encrypt", "decrypt"}
    /\ i \in job.pending
    /\ job' = Finished(job, i, RunChunk(job, i))
    /\ UNCHANGED <<srcLen, archPath, utilVars, encVars, fragVars>>

\* the rest of encrypt_file / decrypt_file once the list of results is there
WriteChunks(outs, path) ==
    /\ fs' = IF job.op = "encrypt"
             THEN [fs EXCEPT ![EncPath(archPath)] = Container(job.salt, outs)]
             ELSE [fs EXCEPT ![DecPath] = DataFile(outs)]
    /\ job' = [job EXCEPT !.phase = "done", !.path = path, !.written = outs]
    /\ UNCHANGED <<srcLen, archPath, utilVars, encCall, decCall, rstCall, fragVars>>

\* compute() returns and the output file is written
CollectChunks ==
    /\ job.phase = "parallel" /\ job.op \in {"encrypt", "decrypt"}
    /\ job.pending = {} /\ ~job.raised
    /\ LET res == Gather(job.finished, job.results)
       IN  WriteChunks([i \in 1..Len(res) |-> res[i].out], "parallel")

\* compute() raises (Dask itself, or a task): the except branch runs every
\* chunk again in a list comprehension, which raises at the first chunk that
\* fails; otherwise the output file is written
FallbackChunks ==
    /\ job.phase = "parallel" /\ job.op \in {"encrypt", "decrypt"}
    /\ LET res == [i \in 1..Len(job.tasks) |-> RunChunk(job, i)]
           bad == {i \in 1..Len(res) : ~res[i].ok}
       IN  IF bad = {}
           THEN WriteChunks([i \in 1..Len(res) |-> res[i].out], "fallback")
           ELSE /\ job' = [job EXCEPT !.phase = "failed", !.path = "fallback",
                             !.err = res[CHOOSE i \in bad : \A k \in bad : i <= k].err]
                /\ UNCHANGED <<srcLen, archPath, utilVars, encVars, fragVars>>

\* bytes free on the destination when fragment_file starts
FreeSpaces == {0, DefaultChunkSize, srcLen}

\* fragment_file up to compute(): the directory is made, the space is
\* checked (cloud_storage only) and the (index, start, end) list is given to
\* Dask
StartFragment(module, fragment_size_mb, free) ==
    /\ job.phase = "idle"
    /\ LET fragment_size == fragment_size_mb * 1024 * 1024
           fragments == FragRanges(srcLen, fragment_size)
           j == NewJob("fragment", fragments)
                  @@ [module |-> module, fragment_size |-> fragment_size,
                      free |-> free]
       IN  /\ job' = IF module = "cloud_storage" /\ srcLen > free
                     THEN [j EXCEPT !.phase = "failed", !.err = "insufficient_space"]
                     ELSE j
           /\ dir' = [i \in 1..Len(fragments) |-> NoFile]
    /\ UNCHANGED <<srcLen, archPath, utilVars, encVars, manifest, outFile, fragCall, rebCall>>

\* a worker runs write_fragment on fragment i - 1
FragmentTask(i, io) ==
    /\ job.phase = "parallel" /\ job.op = "fragment"
    /\ i \in job.pending
    /\ LET w == write_fragment(srcLen, job.tasks[i])
           s == StoreFragment(dir, i - 1, w, job.free, io)
       IN  /\ dir' = s.dir
           /\ job' = Finished(job, i, IF s.ok THEN [ok |-> TRUE, out |-> w]
                                      ELSE [ok |-> FALSE, err |-> "os_error"])
    /\ UNCHANGED <<srcLen, archPath, utilVars, encVars, manifest, outFile, fragCall, rebCall>>

\* compute() returns and the metadata is written
CollectFragments ==
    /\ job.phase = "parallel" /\ job.op = "fragment"
    /\ job.pending = {} /\ ~job.raised
    /\ LET res == Gather(job.finished, job.results)
       IN  manifest' = Metadata(job.module, archPath, srcLen, job.fragment_size,
                                [i \in 1..Len(res) |-> res[i].out])
    /\ job' = [job EXCEPT !.phase = "done", !.path = "parallel"]
    /\ UNCHANGED <<srcLen, archPath, utilVars, encVars, dir, outFile, fragCall, rebCall>>

\* compute() raises (Dask itself, or a task): the except branch writes every
\* fragment again, in order; an exception of write_fragment leaves
\* fragment_file, otherwise the metadata is written
FallbackFragments(failAt) ==
    /\ job.phase = "parallel" /\ job.op = "fragment"
    /\ failAt <= Len(job.tasks)
    /\ LET ws == [i \in 1..Len(job.tasks) |-> write_fragment(srcLen, job.tasks[i])]
           r  == SequentialWrites(dir, 1, ws, job.free, failAt)
       IN  /\ dir' = r.dir
           /\ IF r.raised = 0
              THEN /\ manifest' = Metadata(job.module, archPath, srcLen,
                                           job.fragment_size, ws)
                   /\ job' = [job EXCEPT !.phase = "done", !.path = "fallback"]
              ELSE /\ manifest' = manifest
                   /\ job' = [job EXCEPT !.phase = "failed", !.path = "fallback",
                                         !.err = "os_error"]
    /\ UNCHANGED <<srcLen, archPath, utilVars, encVars, outFile, fragCall, rebCall>>

ParNext ==
    \/ \E pw \in Passwords, s \in Salts : StartEncrypt(pw, s)
    \/ \E pw \in Passwords : StartDecrypt(pw)
    \/ \E i \in 1..MaxTasks : ChunkTask(i)
    \/ CollectChunks
    \/ FallbackChunks
    \/ \E m \in {"cloud_storage", "storage"}, free \in FreeSpaces :
            StartFragment(m, 1, free)
    \/ \E i \in 1..MaxTasks, io \in BOOLEAN : FragmentTask(i, io)
    \/ CollectFragments
    \/ \E failAt \in 0..MaxTasks : FallbackFragments(failAt)

SpecPar == ParInit /\ [][ParNext]_vars

----------------------------------------------------------------------------
(* Claims about the parallel runs                                          *)

ChunkJobDone == job.op \in {"encrypt", "decrypt"} /\ job.phase = "done"

FragmentJob == job.op = "fragment"

NoFragmentFile == \A k \in 1..Len(dir) : dir[k] = NoFile

\* C11: in encrypt_file and decrypt_file, whatever order the tasks finish in
\* and whichever of the parallel path and the fallback produced the results,
\* the i-th unit (piece) written to the output file is the one computed from
\* the i-th chunk read from the input.
C11_OutputInInputOrder ==
    ChunkJobDone
        => /\ Len(job.written) = Len(job.tasks)
           /\ \A i \in 1..Len(job.tasks) : job.written[i] = RunChunk(job, i).out
           /\ job.op = "encrypt"
                => /\ fs[EncPath(archPath)].units = job.written
                   /\ \A i \in 1..Len(job.written) :
                        /\ job.written[i].a = (i - 1) * DefaultChunkSize
                        /\ job.written[i].b = Min(i * DefaultChunkSize, srcLen)
           /\ job.op = "decrypt"
                => /\ fs[DecPath] = DataFile(job.written)
                   /\ (\A i \in 1..Len(job.units) : job.units[i].key = job.key)
                        => /\ \A i \in 1..Len(job.written) :
                                job.written[i] =
                                    [t |-> "P", a |-> (i - 1) * DefaultChunkSize,
                                     b |-> Min(i * DefaultChunkSize, srcLen)]
                           /\ fs[DecPath] = Original(srcLen)

\* three chunks decrypted by tasks that finished last chunk first
C11_Witness ==
    /\ ChunkJobDone /\ job.op = "decrypt" /\ job.path = "parallel"
    /\ job.finished = <<3, 1, 2>>
    /\ fs[DecPath] = Original(srcLen)

\* C15: after cloud_storage.fragment_file completes, by the parallel path or
\* the fallback, the manifest holds exactly num_fragments entries, one per
\* index 0..num_fragments-1 under the distinct name <stem>.part<index on 3
\* digits>, each with the size and checksum of the bytes written to that
\* fragment file, and the sizes sum to file_size.
C15_ManifestMatchesFragments ==
    (FragmentJob /\ job.module = "cloud_storage" /\ job.phase = "done")
        => LET es == manifest.fragments
               n  == CeilDiv(srcLen, job.fragment_size)
           IN  /\ manifest.num_fragments = n
               /\ Len(es) = n /\ Len(dir) = n
               /\ \A i \in 0..(n - 1) :
                    /\ es[i + 1].name = (IF i < 10 THEN <<0, 0, i>> ELSE FragName(i))
                    /\ es[i + 1].index = i
                    /\ dir[i + 1] # NoFile
                    /\ es[i + 1].size = Size(dir[i + 1])
                    /\ es[i + 1].checksum = Checksum(dir[i + 1])
               /\ \A i, k \in 1..n : i # k => es[i].name # es[k].name
               /\ SumTo([i \in 1..n |-> es[i].size], n) = srcLen
               /\ manifest.file_size = srcLen

\* three fragments written by the fallback after one task had run
C15_Witness ==
    /\ FragmentJob /\ job.module = "cloud_storage" /\ job.phase = "done"
    /\ job.path = "fallback" /\ Len(job.finished) = 1
    /\ Len(manifest.fragments) = 3
    /\ manifest.fragments[3].size = 1

\* C16: when the destination has less free space than the size of the source
\* file, fragment_file (of cloud_storage.py and of storage.py) fails with an
\* insufficient-space error before any fragment file or manifest is written.
C16_SpaceCheckedFirst ==
    (FragmentJob /\ job.free < srcLen)
        => /\ NoFragmentFile
           /\ manifest = NoFile
           /\ job.phase \in {"done", "failed"}
                => (job.phase = "failed" /\ job.err = "insufficient_space")

\* C18: when the parallel run of fragment_file fails after any subset of the
\* fragments was written and the sequential fallback runs to its end, the
\* fragment files and the manifest are those of a run whose parallel path
\* succeeded.
C18_FallbackSameOutput ==
    (FragmentJob /\ job.phase = "done" /\ job.path = "fallback")
        => LET results == FragmentResults(srcLen, job.fragment_size)
           IN  /\ dir = [i \in 1..Len(results) |-> results[i].data]
               /\ manifest = Metadata(job.module, archPath, srcLen,
                                      job.fragment_size, results)
               /\ job.module = "cloud_storage"
                    => /\ dir = fragment_file_cloud(archPath, srcLen, 1, job.free).dir
                       /\ manifest =
                            fragment_file_cloud(archPath, srcLen, 1, job.free).manifest

\* the parallel run had written the last two of three fragments when it failed
C18_Witness ==
    /\ FragmentJob /\ job.phase = "done" /\ job.path = "fallback"
    /\ job.module = "cloud_storage"
    /\ job.finished = <<3, 2>>
    /\ Len(dir) = 3 /\ dir[1] = ReadAt(srcLen, 0, job.fragment_size)

\* C19: if fragment_file fails while writing a fragment (in the parallel path
\* and again in the fallback) although the destination has room for the file,
\* it leaves no fragment file and no manifest in the output directory.
C19_NoPartialOutput ==
    (FragmentJob /\ job.phase = "failed" /\ job.raised /\ job.free >= srcLen)
        => /\ NoFragmentFile
           /\ manifest = NoFile

\* C24: reassembly never modifies, truncates or deletes the manifest or a
\* fragment file: when rebuild_file, the basic script or restore_fragments
\* returns, on success or on failure, the fragments directory and the
\* manifest are as they were before the call.
C24_ReassemblyLeavesFragments ==
    [][(~rebCall.done /\ rebCall'.done) => (dir' = dir /\ manifest' = manifest)]_vars

----------------------------------------------------------------------------
(* An encrypted backup in fragments: compress_files wrote '<archive>.enc',  *)
(* storage.fragment_file cut it up, restore_backup gets the directory       *)

\* restore_backup(backup_path, output_dir, password) on a directory
restore_backup_dir(password, m, d, out) == restore_fragments(m, d, out)

\* lengths of the archive that was encrypted
EncFragLens == {1, DefaultChunkSize, 2 * DefaultChunkSize + 1}

EncFragInit ==
    /\ \E n \in EncFragLens, p \in ArchivePaths :
            /\ archPath = EncPath(p)
            /\ srcLen = ContainerSize(encrypt_file(n, "pw1", "s1", DefaultChunkSize))
    /\ fs = [p \in Paths |-> NoFile]
    /\ encCall = NoCall
    /\ decCall = NoCall
    /\ rstCall = NoCall
    /\ dir = <<>>
    /\ manifest = NoFile
    /\ outFile = NoFile
    /\ fragCall = NoCall
    /\ rebCall = NoCall
    /\ job = NoJob
    /\ UtilIdle

\* restore_backup called with password has ended with r
Restored(password, r) ==
    /\ outFile' = r.out
    /\ dir' = DirAfter("restore_backup", manifest, dir, r)
    /\ rebCall' = [done |-> TRUE, tool |-> "restore_backup",
                   password |-> password, ok |-> r.ok, err |-> r.err,
                   missing |-> r.missing, mismatches |-> r.mismatches,
                   order |-> r.order, reads |-> r.reads,
                   warning |-> r.warning, extracted |-> r.extracted]
    /\ UNCHANGED <<srcLen, archPath, utilVars, encVars, manifest, fragCall, job>>

\* restore_backup(fragments_dir, output_dir, password)
RestoreDirectory(password) ==
    /\ fragCall.done /\ fragCall.ok /\ ~rebCall.done
    /\ Restored(password, restore_backup_dir(password, manifest, dir, outFile))

EncFragNext ==
    \/ \E mb \in FragSizesMb, free \in {0, srcLen} : FragmentFileCloud(mb, free)
    \/ \E mb \in FragSizesMb : FragmentFileStorage(mb)
    \/ \E i \in 0..MaxDamageIndex : DeleteFragment(i)
    \/ \E password \in Passwords \cup {""} : RestoreDirectory(password)

SpecEncFrag == EncFragInit /\ [][EncFragNext]_vars

\* C26: restore_backup called with the password on the untouched fragments
\* directory storage.fragment_file made of an encrypted '.enc' container
\* passes the password on to decrypt_file and restores the backup content.
C26_PasswordReachesDecrypt ==
    (RanTool("restore_backup") /\ manifest.kind = "text" /\ Lost = {}
        /\ rebCall.password = "pw1")
        => (rebCall.ok /\ rebCall.extracted)

----------------------------------------------------------------------------
(* src/core/compressor.py: compress_files                                  *)

\* the value None of a password or of a result
None == "None"

\* bool(password)
Truthy(password) == password \notin {None, ""}

Algorithms == {"zip", "gzip", "bzip2", "rar"}

CmpPasswords == Passwords \cup {"", None}

\* the input lists: for each file given, whether it exists
InputLists == {<<>>, <<TRUE>>, <<FALSE>>, <<TRUE, FALSE>>, <<FALSE, FALSE>>}

CmpLens == {1, DefaultChunkSize, DefaultChunkSize + 1}

\* the archive the compress_*_parallel functions of this algorithm write
Produces(algorithm, output) ==
    \/ algorithm = "zip" /\ Suffix(output) = "zip"
    \/ algorithm = "gzip" /\ IsTar(output) /\ Suffix(output) = "gz"
    \/ algorithm = "bzip2" /\ IsTar(output) /\ Suffix(output) = "bz2"

\* compress_zip_parallel / compress_gzip_parallel / compress_bzip2_parallel:
\* every input that can be read is added, an input that cannot is logged and
\* skipped; the archive is written and its path returned
compress_parallel(inputs, output, files) ==
    [path |-> output,
     members |-> SelectSeq([k \in 1..Len(inputs) |-> k], LAMBDA k : inputs[k]),
     files |-> [files EXCEPT ![output] = Original(srcLen)]]

\* compress_files(files, algorithm, output, encrypt, password); the inputs are
\* other files than the output.  removeOk: os.remove of the archive works.
compress_files(inputs, algorithm, output, encrypt, password, salt, removeOk, files) ==
    IF algorithm \notin {"zip", "gzip", "bzip2"}
    THEN [raised |-> FALSE, result |-> None, members |-> <<>>, files |-> files]
    ELSE LET c == compress_parallel(inputs, output, files)
             encrypted_output == EncPath(c.path)
         IN  IF encrypt /\ Truthy(password)
             THEN [raised |-> FALSE, result |-> encrypted_output, members |-> c.members,
                   files |-> [c.files EXCEPT
                       ![encrypted_output] =
                            encrypt_file(srcLen, password, salt, DefaultChunkSize),
                       ![c.path] = IF removeOk THEN NoFile ELSE @]]
             ELSE [raised |-> FALSE, result |-> c.path, members |-> c.members,
                   files |-> c.files]

CmpInit ==
    /\ srcLen \in CmpLens
    /\ archPath \in ArchivePaths
    /\ fs = [p \in Paths |-> NoFile]
    /\ encCall = NoCall
    /\ decCall = NoCall
    /\ rstCall = NoCall
    /\ dir = <<>>
    /\ manifest = NoFile
    /\ outFile = NoFile
    /\ fragCall = NoCall
    /\ rebCall = NoCall
    /\ job = NoJob
    /\ UtilIdle

\* compress_files(inputs, algorithm, archPath, encrypt, password)
CompressFiles(inputs, algorithm, encrypt, password, salt, removeOk) ==
    /\ ~cmpCall.done
    /\ algorithm \in {"zip", "gzip", "bzip2"} => Produces(algorithm, archPath)
    /\ LET r == compress_files(inputs, algorithm, archPath, encrypt, password, salt,
                               removeOk, fs)
       IN  /\ fs' = r.files
           /\ cmpCall' = [done |-> TRUE, inputs |-> inputs, algorithm |-> algorithm,
                          encrypt |-> encrypt, password |-> password,
                          raised |-> r.raised, result |-> r.result,
                          members |-> r.members]
    /\ UNCHANGED <<srcLen, archPath, encCall, decCall, rstCall, fragVars, job,
                   retryCall, folders, backups>>

CmpNext ==
    \E inputs \in InputLists, algorithm \in Algorithms, encrypt \in BOOLEAN,
       password \in CmpPasswords, salt \in Salts, removeOk \in BOOLEAN :
            CompressFiles(inputs, algorithm, encrypt, password, salt, removeOk)

SpecCmp == CmpInit /\ [][CmpNext]_vars

\* C21: compress_files with an algorithm other than zip, gzip or bzip2 raises
\* an exception to its caller.
C21_UnknownAlgorithmRaises ==
    (cmpCall.done /\ cmpCall.algorithm \notin {"zip", "gzip", "bzip2"})
        => cmpCall.raised

\* C22: compress_files with a (non-empty) list of files none of which exists
\* raises an exception to its caller instead of returning the path of an
\* archive.
C22_NoInputRaises ==
    (cmpCall.done /\ cmpCall.algorithm \in {"zip", "gzip", "bzip2"}
        /\ cmpCall.inputs # <<>>
        /\ \A k \in 1..Len(cmpCall.inputs) : ~cmpCall.inputs[k])
        => (cmpCall.raised /\ cmpCall.result = None)

\* C25: whenever compress_files is called with encrypt=True and returns a
\* path, that path is a '.enc' container and the unencrypted archive is no
\* longer on disk, for every password, the empty string and None included.
C25_EncryptFlagMeansEncrypted ==
    (cmpCall.done /\ cmpCall.encrypt /\ ~cmpCall.raised /\ cmpCall.result # None)
        => /\ Suffix(cmpCall.result) = "enc"
           /\ fs[cmpCall.result].kind = "container"
           /\ fs[archPath] = NoFile

----------------------------------------------------------------------------
(* src/core/scanner.py: scan_directory, scan_directories                   *)

MaxDirs == 3

DirNames == {"missing", "empty", "docs", "pics"}

DirLists == UNION {[1..n -> DirNames] : n \in 0..MaxDirs}

\* the files below a directory of the disk, in the order os.walk gives them
Tree(directory) ==
    CASE directory = "docs" -> <<"docs/a.txt", "docs/sub/b.txt">>
      [] directory = "pics" -> <<"pics/c.png">>
      [] OTHER -> <<>>

\* scan_directory(directory): [] for a directory that does not exist
scan_directory(directory) ==
    IF directory = "missing" THEN <<>> ELSE Tree(directory)

\* for directory in directories: all_files.extend(scan_directory(directory))
RECURSIVE ScanSequential(_)
ScanSequential(directories) ==
    IF directories = <<>>
    THEN <<>>
    ELSE LET n == Len(directories)
         IN  ScanSequential(SubSeq(directories, 1, n - 1))
                \o scan_directory(directories[n])

\* the paths of the lists, each path once
RECURSIVE Flatten_Distinct(_)
Flatten_Distinct(lists) ==
    IF lists = <<>>
    THEN <<>>
    ELSE LET n == Len(lists)
             before == Flatten_Distinct(SubSeq(lists, 1, n - 1))
         IN  before \o SelectSeq(lists[n],
                            LAMBDA f : \A k \in 1..Len(before) : before[k] # f)

\* bag.flatten(): the elements of the lists, one list after the other
RECURSIVE Flatten(_)
Flatten(lists) ==
    IF lists = <<>>
    THEN <<>>
    ELSE Flatten(SubSeq(lists, 1, Len(lists) - 1)) \o lists[Len(lists)]

ScanInit ==
    /\ srcLen = 1
    /\ archPath \in ArchivePaths
    /\ fs = [p \in Paths |-> NoFile]
    /\ encCall = NoCall
    /\ decCall = NoCall
    /\ rstCall = NoCall
    /\ dir = <<>>
    /\ manifest = NoFile
    /\ outFile = NoFile
    /\ fragCall = NoCall
    /\ rebCall = NoCall
    /\ job = NoJob
    /\ UtilIdle

\* scan_directories(directories, parallel) up to compute(); with
\* parallel=False the loop runs and the list is returned
StartScan(directories, parallel) ==
    /\ job.phase = "idle"
    /\ LET j == NewJob("scan", directories)
                  @@ [parallel |-> parallel, all_files |-> <<>>]
       IN  job' = IF parallel
                  THEN j
                  ELSE [j EXCEPT !.phase = "done", !.path = "sequential",
                                 !.all_files = ScanSequential(directories)]
    /\ UNCHANGED <<srcLen, archPath, utilVars, encVars, fragVars>>

\* a worker runs scan_directory on directory i
ScanTask(i) ==
    /\ job.phase = "parallel" /\ job.op = "scan"
    /\ i \in job.pending
    /\ job' = Finished(job, i, [ok |-> TRUE, out |-> scan_directory(job.tasks[i])])
    /\ UNCHANGED <<srcLen, archPath, utilVars, encVars, fragVars>>

\* compute() returns the flattened bag
CollectScan ==
    /\ job.phase = "parallel" /\ job.op = "scan"
    /\ job.pending = {}
    /\ LET res == Gather(job.finished, job.results)
       IN  job' = [job EXCEPT !.phase = "done", !.path = "parallel",
                     !.all_files = Flatten([i \in 1..Len(res) |-> res[i].out])]
    /\ UNCHANGED <<srcLen, archPath, utilVars, encVars, fragVars>>

\* compute() raises: the except branch starts from an empty list and scans
\* the directories one after the other
FallbackScan ==
    /\ job.phase = "parallel" /\ job.op = "scan"
    /\ job' = [job EXCEPT !.phase = "done", !.path = "fallback", !.raised = TRUE,
                          !.all_files = ScanSequential(job.tasks)]
    /\ UNCHANGED <<srcLen, archPath, utilVars, encVars, fragVars>>

ScanNext ==
    \/ \E directories \in DirLists, parallel \in BOOLEAN :
            StartScan(directories, parallel)
    \/ \E i \in 1..MaxDirs : ScanTask(i)
    \/ CollectScan
    \/ FallbackScan

SpecScan == ScanInit /\ [][ScanNext]_vars

\* how many times x is in list
Count(list, x) == Cardinality({k \in 1..Len(list) : list[k] = x})

SameMultiset(a, b) ==
    \A x \in {a[k] : k \in 1..Len(a)} \cup {b[k] : k \in 1..Len(b)} :
        Count(a, x) = Count(b, x)

ScanDone == job.op = "scan" /\ job.phase = "done"

\* C23: for every list of directories (with files, empty or missing, a
\* directory possibly given twice), scan_directories with parallel=True
\* returns the same multiset of paths as the sequential loop over the same
\* list, whether compute() returned or raised and the fallback ran.
C23_ParallelScanSameFiles ==
    (ScanDone /\ job.parallel)
        => SameMultiset(job.all_files, ScanSequential(job.tasks))

\* a parallel scan of a missing directory and one given twice, finished by
\* the fallback after some task had already run
C23_Witness ==
    /\ ScanDone /\ job.parallel /\ job.path = "fallback"
    /\ job.finished # <<>>
    /\ \E k \in 1..Len(job.tasks) : job.tasks[k] = "missing"
    /\ \E x \in {"docs/a.txt", "pics/c.png"} : Count(job.all_files, x) = 2

\* the same list scanned by compute() without a failure
C23_WitnessParallel ==
    /\ ScanDone /\ job.parallel /\ job.path = "parallel"
    /\ \E k \in 1..Len(job.tasks) : job.tasks[k] = "missing"
    /\ Count(job.all_files, "docs/a.txt") = 2

----------------------------------------------------------------------------
(* src/utils/error_handler.py: retry, safe_cloud_operation                 *)

MaxAttempts == 3

\* max_attempts of the retry inside safe_cloud_operation
CloudAttempts == 3

\* what a call of the wrapped function does: it returns, or raises one of
\* these
Outcomes ==
    {"ok", "ConnectionError", "ConnectionResetError", "TimeoutError", "ValueError"}

\* the tuples given as exceptions=
ExceptionTuples ==
    {{"Exception"}, {"ConnectionError", "TimeoutError"}, {"ValueError"}}

\* issubclass(t, c) for the exception classes used here
IsSubclass(t, c) ==
    \/ t = c
    \/ c = "Exception"
    \/ t = "ConnectionResetError" /\ c = "ConnectionError"

\* an except clause that catches everything
Caught_Any(t, exceptions) == TRUE

\* except exceptions as e: the clause catches an exception of type t
Caught(t, exceptions) == \E c \in exceptions : IsSubclass(t, c)

\* the inner wrapper of safe_cloud_operation around operation_func: what it
\* returns or raises when operation_func ends with outcome
CloudWrapper(outcome) == IF outcome = "ok" THEN "ok" ELSE "StorageError"

\* one pass of the loop of retry's wrapper, in call c, when func ends with
\* raised ("ok": it returned); the loop is left by the return, by an
\* exception the clause does not catch, or after pass max_attempts
retry_step(c, raised) ==
    LET n == c.calls + 1
    IN  IF raised = "ok"
        THEN [c EXCEPT !.calls = n, !.done = TRUE, !.state = "returned",
                       !.result = n]
        ELSE IF ~Caught(raised, c.exceptions)
        THEN [c EXCEPT !.calls = n, !.done = TRUE, !.state = "raised",
                       !.exc = <<raised, n>>]
        ELSE IF c.attempt + 1 < c.max_attempts
        THEN [c EXCEPT !.calls = n, !.attempt = @ + 1,
                       !.last_exception = <<raised, n>>]
        ELSE [c EXCEPT !.calls = n, !.attempt = @ + 1,
                       !.last_exception = <<raised, n>>,
                       !.done = TRUE, !.state = "raised", !.exc = <<raised, n>>]

\* the call of a function decorated with retry(max_attempts, exceptions)
NewRetry(safe, max_attempts, exceptions) ==
    [done |-> FALSE, state |-> "running", safe |-> safe,
     max_attempts |-> max_attempts, exceptions |-> exceptions,
     attempt |-> 0, calls |-> 0, outcomes |-> <<>>,
     last_exception |-> <<>>, result |-> 0, exc |-> <<>>]

RetryInit ==
    /\ srcLen = 1
    /\ archPath \in ArchivePaths
    /\ fs = [p \in Paths |-> NoFile]
    /\ encCall = NoCall
    /\ decCall = NoCall
    /\ rstCall = NoCall
    /\ dir = <<>>
    /\ manifest = NoFile
    /\ outFile = NoFile
    /\ fragCall = NoCall
    /\ rebCall = NoCall
    /\ job = NoJob
    /\ UtilIdle

\* a function decorated with @retry(max_attempts, exceptions) is called
StartRetry(max_attempts, exceptions) ==
    /\ retryCall = NoCall
    /\ retryCall' = NewRetry(FALSE, max_attempts, exceptions)
    /\ UNCHANGED <<srcLen, archPath, encVars, fragVars, job, cmpCall, folders, backups>>

\* a function decorated with @safe_cloud_operation is called
StartCloudOperation ==
    /\ retryCall = NoCall
    /\ retryCall' = NewRetry(TRUE, CloudAttempts, {"ConnectionError", "TimeoutError"})
    /\ UNCHANGED <<srcLen, archPath, encVars, fragVars, job, cmpCall, folders, backups>>

\* the wrapper calls the function once more and it ends with outcome
Attempt(outcome) ==
    /\ retryCall # NoCall /\ retryCall.state = "running"
    /\ retryCall.attempt < retryCall.max_attempts
    /\ LET raised == IF retryCall.safe THEN CloudWrapper(outcome) ELSE outcome
       IN  retryCall' = [retry_step(retryCall, raised) EXCEPT
                            !.outcomes = Append(@, outcome)]
    /\ UNCHANGED <<srcLen, archPath, encVars, fragVars, job, cmpCall, folders, backups>>

RetryNext ==
    \/ \E max_attempts \in 1..MaxAttempts, exceptions \in ExceptionTuples :
            StartRetry(max_attempts, exceptions)
    \/ StartCloudOperation
    \/ \E outcome \in Outcomes : Attempt(outcome)

SpecRetry == RetryInit /\ [][RetryNext]_vars

RetryCalled(safe) == retryCall # NoCall /\ retryCall.safe = safe

\* t is one of the exception types listed in exceptions, or a subclass of one
Listed(t, exceptions) == \E c \in exceptions : IsSubclass(t, c)

\* the calls before the last one all raised an exception of a listed type
EarlierListed(c) ==
    \A k \in 1..(Len(c.outcomes) - 1) :
        c.outcomes[k] # "ok" /\ Listed(c.outcomes[k], c.exceptions)

\* C28: a function wrapped by safe_cloud_operation that raises
\* ConnectionError or TimeoutError is called again, up to 3 attempts in
\* total; the failure is surfaced as StorageError only after the third
\* failed attempt.
C28_CloudOperationRetried ==
    (RetryCalled(TRUE) /\ retryCall.state = "raised"
        /\ \A k \in 1..Len(retryCall.outcomes) :
              \/ IsSubclass(retryCall.outcomes[k], "ConnectionError")
              \/ IsSubclass(retryCall.outcomes[k], "TimeoutError"))
        => /\ retryCall.calls = CloudAttempts
           /\ retryCall.exc[1] = "StorageError"

\* C29: for every max_attempts >= 1 the function is called at most
\* max_attempts times; the wrapper returns the result of the first call that
\* does not raise and calls no more; after max_attempts calls that raised a
\* listed exception it raises the exception of the last call; an exception
\* of an unlisted type is propagated at once, without another call.
C29_RetryBounded ==
    RetryCalled(FALSE)
        => LET c == retryCall
               n == Len(c.outcomes)
           IN  /\ c.calls = n /\ n <= c.max_attempts
               /\ EarlierListed(c)
               /\ c.state = "running"
                    => /\ n < c.max_attempts
                       /\ n > 0 => Listed(c.outcomes[n], c.exceptions)
                                     /\ c.outcomes[n] # "ok"
               /\ c.state = "returned"
                    => c.outcomes[n] = "ok" /\ c.result = n
               /\ c.state = "raised"
                    => /\ c.outcomes[n] # "ok"
                       /\ c.exc = <<c.outcomes[n], n>>
                       /\ \/ n = c.max_attempts /\ Listed(c.outcomes[n], c.exceptions)
                          \/ ~Listed(c.outcomes[n], c.exceptions)

\* three calls failed with listed exceptions and the last one was re-raised
C29_Witness ==
    /\ RetryCalled(FALSE) /\ retryCall.state = "raised"
    /\ retryCall.max_attempts = 3 /\ retryCall.calls = 3
    /\ retryCall.exceptions = {"ConnectionError", "TimeoutError"}
    /\ retryCall.exc = <<"ConnectionResetError", 3>>
    /\ retryCall.outcomes[1] = "TimeoutError"

\* the second call returned after a listed exception
C29_WitnessReturned ==
    /\ RetryCalled(FALSE) /\ retryCall.state = "returned"
    /\ retryCall.max_attempts = 3 /\ retryCall.calls = 2

\* an unlisted exception ended the call after a retry
C29_WitnessUnlisted ==
    /\ RetryCalled(FALSE) /\ retryCall.state = "raised"
    /\ retryCall.max_attempts = 3 /\ retryCall.calls = 2
    /\ retryCall.exc = <<"ValueError", 2>>

----------------------------------------------------------------------------
(* src/main.py: create_organized_backup_folder, called by handle_backup    *)

\* the last counter the loop accepts
FolderLimit == 9999

\* backups started in the same base directory
MaxRunning == 2

StorageModes == {"fragments", "local"}

\* the counters n for which 'backup_fragments_<n>' exists at the start
ExistingCounters ==
    {{}, {1}, {1, 2}, {2}, {1, 3}, 1..(FolderLimit - 1), 1..FolderLimit}

\* base_name: by storage mode, with "_encrypted" when encrypt is set
BaseName(storage_mode, encrypt) ==
    <<CASE storage_mode = "fragments" -> "backup_fragments"
        [] storage_mode = "cloud" -> "backup_cloud"
        [] OTHER -> "backup_local",
      IF encrypt THEN "_encrypted" ELSE "">>

\* the while loop: the counter it stops at, the first n from 1 on for which
\* '<base_name>_<n>' does not exist, or 0 when it raises ValueError because
\* 1..9999 all exist.  The folders are only ever added, so the counters below
\* the one found missing still exist at that moment.
NextCounter(base_name, existing) ==
    LET free == {n \in 1..FolderLimit : <<base_name, n>> \notin existing}
    IN  IF free = {} THEN 0 ELSE CHOOSE n \in free : \A k \in free : n <= k

FolderInit ==
    /\ srcLen = 1
    /\ archPath \in ArchivePaths
    /\ fs = [p \in Paths |-> NoFile]
    /\ encCall = NoCall
    /\ decCall = NoCall
    /\ rstCall = NoCall
    /\ dir = <<>>
    /\ manifest = NoFile
    /\ outFile = NoFile
    /\ fragCall = NoCall
    /\ rebCall = NoCall
    /\ job = NoJob
    /\ cmpCall = NoCall
    /\ retryCall = NoCall
    /\ \E e \in ExistingCounters :
            folders = {<<BaseName("fragments", FALSE), n>> : n \in e}
    /\ backups = <<>>

\* handle_backup calls create_organized_backup_folder, which computes
\* base_name
StartBackup(storage_mode, encrypt) ==
    /\ Len(backups) < MaxRunning
    /\ backups' = Append(backups, [pc |-> "loop",
                                   base_name |-> BaseName(storage_mode, encrypt),
                                   counter |-> 1])
    /\ UNCHANGED <<srcLen, archPath, encVars, fragVars, job, cmpCall, retryCall, folders>>

\* backup p leaves the while loop: by break with the counter of a folder
\* that does not exist, or by ValueError
FindFolder(p) ==
    /\ p \in 1..Len(backups) /\ backups[p].pc = "loop"
    /\ LET n == NextCounter(backups[p].base_name, folders)
       IN  backups' = [backups EXCEPT ![p] =
                IF n = 0 THEN [@ EXCEPT !.pc = "raised", !.counter = FolderLimit + 1]
                ELSE [@ EXCEPT !.pc = "makedirs", !.counter = n]]
    /\ UNCHANGED <<srcLen, archPath, encVars, fragVars, job, cmpCall, retryCall, folders>>

\* os.makedirs(backup_folder, exist_ok=True) and the return
MakeDirs(p) ==
    /\ p \in 1..Len(backups) /\ backups[p].pc = "makedirs"
    /\ folders' = folders \cup {<<backups[p].base_name, backups[p].counter>>}
    /\ backups' = [backups EXCEPT ![p].pc = "returned"]
    /\ UNCHANGED <<srcLen, archPath, encVars, fragVars, job, cmpCall, retryCall>>

FolderNext ==
    \/ \E storage_mode \in StorageModes, encrypt \in BOOLEAN :
            StartBackup(storage_mode, encrypt)
    \/ \E p \in 1..MaxRunning : FindFolder(p)
    \/ \E p \in 1..MaxRunning : MakeDirs(p)

SpecFolder == FolderInit /\ [][FolderNext]_vars

\* the folder backup p was given
FolderOf(p) == <<backups[p].base_name, backups[p].counter>>

\* C30: create_organized_backup_folder returns '<base>_<n>' with n in
\* 1..9999 and every '<base>_<k>', k < n, existing, and two backups running
\* it concurrently with the same storage mode and encryption flag are never
\* given the same folder.
C30_FolderIsFreshAndOwn ==
    \A p \in 1..Len(backups) :
        backups[p].pc = "returned"
            => /\ backups[p].counter \in 1..FolderLimit
               /\ \A k \in 1..(backups[p].counter - 1) :
                        <<backups[p].base_name, k>> \in folders
               /\ \A q \in 1..Len(backups) :
                        (q # p /\ backups[q].pc = "returned")
                            => FolderOf(q) # FolderOf(p)

\* one backup taken alone: the counter is the smallest free one, and
\* ValueError is raised only when 1..9999 all exist
C30_SmallestFreeCounter ==
    \A p \in 1..Len(backups) :
        /\ backups[p].pc \in {"makedirs", "returned"}
            => /\ backups[p].counter \in 1..FolderLimit
               /\ \A k \in 1..(backups[p].counter - 1) :
                        <<backups[p].base_name, k>> \in folders
        /\ backups[p].pc = "raised"
            => \A k \in 1..FolderLimit : <<backups[p].base_name, k>> \in folders

====
